---------------------------- MODULE Spec2Model ----------------------------
(* A model of src/app.py: the /extract request handler (fetch, then        *)
(* parse_product, then the translator adapter t on selected fields, then   *)
(* rendering) and of parse_product's two phases.                           *)
(*                                                                         *)
(* Text is a sequence of lexical tokens: a token is one character (" ",    *)
(* "\n", "3", "g", ...) or an atom standing for a word ("Product",         *)
(* "weight", ...).  A Python value is a tagged record [t, v].              *)
EXTENDS Integers, Sequences, FiniteSets, TLC

-----------------------------------------------------------------------------
(* Python / JSON values *)

Str(s)  == [t |-> "str",  v |-> s]
Num(n)  == [t |-> "num",  v |-> n]
None    == [t |-> "none", v |-> 0]
List(l) == [t |-> "list", v |-> l]
Dict(f) == [t |-> "dict", v |-> f]

EmptyStr  == Str(<< >>)
EmptyDict == Dict(<< >>)

IsStr(x)  == x.t = "str"
IsList(x) == x.t = "list"
IsDict(x) == x.t = "dict"

\* Python truth value of x (what "not x", "x or y", "if x" test).
Truthy(x) ==
    CASE x.t = "str"  -> x.v # << >>
      [] x.t = "num"  -> x.v # 0
      [] x.t = "none" -> FALSE
      [] x.t = "list" -> x.v # << >>
      [] x.t = "dict" -> DOMAIN x.v # {}

\* Python "a or b".
Or(a, b) == IF Truthy(a) THEN a ELSE b

\* dict.get(k): the value, or None for a missing key.
Get(d, k) == IF k \in DOMAIN d.v THEN d.v[k] ELSE None

-----------------------------------------------------------------------------
(* Text *)

IsWs(c) == c \in {" ", "\n"}

RECURSIVE LStrip(_)
LStrip(s) ==
    IF s = << >> THEN s
    ELSE IF IsWs(Head(s)) THEN LStrip(Tail(s)) ELSE s

RECURSIVE RStrip(_)
RStrip(s) ==
    IF s = << >> THEN s
    ELSE IF IsWs(s[Len(s)]) THEN RStrip(SubSeq(s, 1, Len(s) - 1)) ELSE s

\* str.strip()
Strip(s) == RStrip(LStrip(s))

\* re.sub(r"\s+", " ", s): every run of whitespace becomes one space.
RECURSIVE Collapse(_)
Collapse(s) ==
    IF s = << >> THEN << >>
    ELSE IF IsWs(Head(s)) THEN <<" ">> \o Collapse(LStrip(s))
    ELSE <<Head(s)>> \o Collapse(Tail(s))

\* The post-processing applied to one field: strings only.
NormalizeValue(x) == IF IsStr(x) THEN Str(Strip(Collapse(x.v))) ELSE x

\* sep.join(parts) for a sequence of texts.
RECURSIVE Join(_, _)
Join(sep, parts) ==
    IF parts = << >> THEN << >>
    ELSE IF Len(parts) = 1 THEN parts[1]
    ELSE parts[1] \o sep \o Join(sep, Tail(parts))

\* str.lower() on one token.  The atoms "Agirlik" / "agirlik" / "AGIRLIK" stand
\* for the Turkish keyword in title, lower and upper case; Python lowers the
\* upper-case form to a word with a dotted i ("agirlik_dotted"), which is not
\* the lower-case keyword.
LowerTok(c) ==
    CASE c \in {"Weight", "WEIGHT"}          -> "weight"
      [] c = "Agirlik"                       -> "agirlik"
      [] c = "AGIRLIK"                       -> "agirlik_dotted"
      [] c \in {"Product", "PRODUCT", "pRoDuCt"} -> "product"
      [] c = "G"                             -> "g"
      [] c = "K"                             -> "k"
      [] OTHER                               -> c

Lower(s) == [i \in 1..Len(s) |-> LowerTok(s[i])]

\* The decimal digits of a natural number, as text.
RECURSIVE Digits(_)
Digits(n) ==
    IF n < 10 THEN <<ToString(n)>> ELSE Digits(n \div 10) \o <<ToString(n % 10)>>

\* What an f-string writes for a value: str(x).
Format(x) ==
    CASE x.t = "str"  -> x.v
      [] x.t = "num"  -> Digits(x.v)
      [] x.t = "none" -> <<"None">>
      [] x.t = "list" -> <<"[..]">>
      [] x.t = "dict" -> <<"{..}">>


-----------------------------------------------------------------------------
(* parse_product, phase 1: the JSON-LD Product object *)

Fields == {"image", "name", "price", "description", "brand", "category", "weight"}

\* data = {"image": "", "name": "", ...}
EmptyData == [f \in Fields |-> EmptyStr]

NoExc == "none"

\* obj.get("@type") in ["Product", "product"]
TypeMatches(ty) == ty \in {Str(<<"Product">>), Str(<<"product">>)}

IsProduct(obj) == IsDict(obj) /\ TypeMatches(Get(obj, "@type"))

\* images = obj.get("image"): first element of a non-empty list, or a string.
ImageOf(obj, old) ==
    LET images == Get(obj, "image") IN
    IF IsList(images) /\ Truthy(images) THEN images.v[1]
    ELSE IF IsStr(images) THEN images
    ELSE old

\* brand = obj.get("brand"): the name of a dict, or a string.
BrandOf(obj, old) ==
    LET brand == Get(obj, "brand") IN
    IF IsDict(brand) THEN Or(Get(brand, "name"), old)
    ELSE IF IsStr(brand) THEN brand
    ELSE old

\* offers = obj.get("offers") or {}; a non-empty list stands for its first
\* element; the price is composed with the currency and stripped.
PriceOf(obj, old) ==
    LET o1     == Or(Get(obj, "offers"), EmptyDict)
        offers == IF IsList(o1) /\ Truthy(o1) THEN o1.v[1] ELSE o1
    IN  IF IsDict(offers)
        THEN LET price    == Or(Or(Get(offers, "price"), Get(offers, "highPrice")),
                                Get(offers, "lowPrice"))
                 currency == Or(Get(offers, "priceCurrency"), EmptyStr)
             IN  IF Truthy(price)
                 THEN Str(Strip(Format(price) \o <<" ">> \o Format(currency)))
                 ELSE old
        ELSE old

\* cats = obj.get("category") or obj.get("categoryName"); " / ".join(cats)
\* raises TypeError when an element of the list is not a string.
CategoryOf(obj, old) ==
    LET cats == Or(Get(obj, "category"), Get(obj, "categoryName")) IN
    IF IsList(cats)
    THEN IF \A i \in 1..Len(cats.v) : IsStr(cats.v[i])
         THEN [exc |-> NoExc,
               val |-> Str(Join(<<" ", "/", " ">>, [i \in 1..Len(cats.v) |-> cats.v[i].v]))]
         ELSE [exc |-> "TypeError", val |-> old]
    ELSE IF IsStr(cats) THEN [exc |-> NoExc, val |-> cats]
    ELSE [exc |-> NoExc, val |-> old]

\* "agirlik" in name or "weight" in name
NamesWeight(name) == \E i \in 1..Len(name) : name[i] \in {"agirlik", "weight"}

\* for p in addp: every entry whose lower-cased name holds a weight keyword
\* assigns data["weight"]; p.get raises AttributeError when p is not a dict,
\* and .lower() raises it when the name is a truthy non-string.
RECURSIVE WeightLoop(_, _)
WeightLoop(addp, w) ==
    IF addp = << >> THEN [exc |-> NoExc, val |-> w]
    ELSE LET p == Head(addp) IN
         IF ~IsDict(p) THEN [exc |-> "AttributeError", val |-> w]
         ELSE LET n == Or(Get(p, "name"), EmptyStr) IN
              IF ~IsStr(n) THEN [exc |-> "AttributeError", val |-> w]
              ELSE IF NamesWeight(Lower(n.v))
                   THEN WeightLoop(Tail(addp),
                                   Or(Or(Get(p, "value"), Get(p, "unitCode")), EmptyStr))
                   ELSE WeightLoop(Tail(addp), w)

WeightOf(obj, old) ==
    LET addp == Or(Get(obj, "additionalProperty"), Get(obj, "additionalProperties")) IN
    IF IsList(addp) THEN WeightLoop(addp.v, old) ELSE [exc |-> NoExc, val |-> old]

\* The body of "if isinstance(obj, dict) and obj.get("@type") in [...]", in
\* statement order: an exception leaves the function.
ExtractProduct(obj, data) ==
    LET cat == CategoryOf(obj, data["category"])
        wt  == WeightOf(obj, data["weight"])
        d1  == [data EXCEPT !["name"]        = Or(Get(obj, "name"), @),
                            !["image"]       = ImageOf(obj, @),
                            !["brand"]       = BrandOf(obj, @),
                            !["price"]       = PriceOf(obj, @),
                            !["description"] = Or(Get(obj, "description"), @)]
    IN  IF cat.exc # NoExc THEN [exc |-> cat.exc, data |-> d1]
        ELSE IF wt.exc # NoExc
             THEN [exc |-> wt.exc, data |-> [d1 EXCEPT !["category"] = cat.val]]
             ELSE [exc |-> NoExc,
                   data |-> [d1 EXCEPT !["category"] = cat.val, !["weight"] = wt.val]]

\* for obj in candidates: the first Product object is extracted, then "break"
\* leaves this loop over the candidates of one block.
RECURSIVE ScanCandidates(_, _)
ScanCandidates(cands, data) ==
    IF cands = << >> THEN [exc |-> NoExc, data |-> data]
    ELSE IF IsProduct(Head(cands)) THEN ExtractProduct(Head(cands), data)
    ELSE ScanCandidates(Tail(cands), data)

\* A script block of type application/ld+json: "empty" has no string
\* (tag.string is None), "bad" does not parse as JSON, "json" parses to js.
Block(k, js) == [k |-> k, js |-> js]

\* candidates = js if isinstance(js, list) else [js]
Candidates(js) == IF IsList(js) THEN js.v ELSE <<js>>

\* for tag in soup.find_all("script", type="application/ld+json"): a block
\* whose json.loads raises is skipped; every other block is scanned, also
\* after an earlier block held a Product object.
RECURSIVE ScanBlocks(_, _)
ScanBlocks(blocks, data) ==
    IF blocks = << >> THEN [exc |-> NoExc, data |-> data]
    ELSE IF Head(blocks).k # "json" THEN ScanBlocks(Tail(blocks), data)
    ELSE LET r == ScanCandidates(Candidates(Head(blocks).js), data) IN
         IF r.exc # NoExc THEN r ELSE ScanBlocks(Tail(blocks), r.data)

Phase1(doc) == ScanBlocks(doc.blocks, EmptyData)

-----------------------------------------------------------------------------
(* parse_product, phase 2: the page outside the JSON-LD blocks *)

\* An element of the page: the index of the selector of its group that it
\* matches, and its text nodes in document order.
El(sel, nodes) == [sel |-> sel, nodes |-> nodes]

RECURSIVE StrippedNodes(_)
StrippedNodes(nodes) ==
    IF nodes = << >> THEN << >>
    ELSE LET x == Strip(Head(nodes)) IN
         IF x = << >> THEN StrippedNodes(Tail(nodes))
         ELSE <<x>> \o StrippedNodes(Tail(nodes))

\* get_text(sep, strip=True): the stripped, non-empty text nodes joined by sep.
GetText(sep, nodes) == Join(sep, StrippedNodes(nodes))

\* A select_one that tries the selectors of the group one after the other, in
\* listed order, instead of walking the document once.
SelectOneByListedOrder(els, sels) ==
    LET hit == {s \in sels : \E i \in 1..Len(els) : els[i].sel = s} IN
    IF hit = {} THEN << >>
    ELSE LET best == CHOOSE s \in hit : \A x \in hit : s <= x
             at   == {i \in 1..Len(els) : els[i].sel = best}
         IN  <<els[CHOOSE i \in at : \A j \in at : i <= j]>>

\* soup.find / soup.select_one: the first element, in document order, that
\* matches any selector of the group; << >> when there is none.
RECURSIVE SelectOne(_, _)
SelectOne(els, sels) ==
    IF els = << >> THEN << >>
    ELSE IF Head(els).sel \in sels THEN <<Head(els)>>
    ELSE SelectOne(Tail(els), sels)

\* soup.select: every element that matches any selector of the group, in
\* document order.
RECURSIVE SelectAll(_, _)
SelectAll(els, sels) ==
    IF els = << >> THEN << >>
    ELSE (IF Head(els).sel \in sels THEN <<Head(els)>> ELSE << >>)
            \o SelectAll(Tail(els), sels)

\* "#product-description, .detail-description, .description, .product-desc,
\* .info-text": five selectors, numbered in listed order.
NumDescSelectors == 5
DescSelectors == 1..NumDescSelectors

\* '[class*="product-price"], [class*="prc-dsc"], [class*="prc-slg"]'
NumPriceSelectors == 3
PriceSelectors == 1..NumPriceSelectors

\* 'nav.breadcrumb a, .breadcrumb a, [data-test-id="breadcrumb"] a'
NumCrumbSelectors == 3
CrumbSelectors == 1..NumCrumbSelectors

RECURSIVE AllNodes(_)
AllNodes(els) ==
    IF els = << >> THEN << >> ELSE Head(els).nodes \o AllNodes(Tail(els))

\* soup.get_text("\n", strip=True): the text of the whole page.
PageText(doc) ==
    GetText(<<"\n">>,
            AllNodes(doc.h1 \o doc.brandEls \o doc.priceEls \o doc.descEls \o doc.crumbs)
              \o doc.text)

At(tx, i) == IF i \in 1..Len(tx) THEN LowerTok(tx[i]) ELSE "$"

\* The last index of the longest run of tokens of S that starts at i
\* (i - 1 when tx[i] is not in S).
RunEnd(tx, i, S) ==
    CHOOSE j \in (i - 1)..Len(tx) :
        /\ \A k \in i..j : At(tx, k) \in S
        /\ At(tx, j + 1) \notin S

Keyword  == {"agirlik", "agirlik_dotted"}    \* the keyword under re.I
NumChars == {"3", "5", ".", ","}             \* [0-9.,]
SepChars == {":", " "}                       \* [: ]
WsChars  == {" ", "\n"}                      \* \s

\* \s?(?:kg|g|gr): the alternatives in the order the regex engine tries them,
\* as <<whitespace taken, unit>>.
UnitOptions ==
    << <<1, <<"k", "g">> >>, <<1, <<"g">> >>, <<1, <<"g", "r">> >>,
       <<0, <<"k", "g">> >>, <<0, <<"g">> >>, <<0, <<"g", "r">> >> >>

\* The index after which option o ends when tried after the digits ending at
\* d, or 0 when it does not match there.
UnitEnd(tx, d, o) ==
    LET ws == o[1]
        u  == o[2]
        p  == d + 1 + ws
    IN  IF /\ (ws = 1 => At(tx, d + 1) \in WsChars)
           /\ \A k \in 1..Len(u) : At(tx, p + k - 1) = u[k]
        THEN p + Len(u) - 1 ELSE 0

\* r"Agirlik[: ]+([0-9.,]+\s?(?:kg|g|gr))" tried at index i: group 1 as
\* <<first, last>>, or << >>.
MatchKeywordFirst(tx, i) ==
    IF At(tx, i) \notin Keyword THEN << >>
    ELSE LET e == RunEnd(tx, i + 1, SepChars)
             d == RunEnd(tx, e + 1, NumChars)
             ok == {k \in 1..Len(UnitOptions) : UnitEnd(tx, d, UnitOptions[k]) # 0}
         IN  IF e < i + 1 \/ d < e + 1 \/ ok = {} THEN << >>
             ELSE LET k == CHOOSE x \in ok : \A y \in ok : x <= y
                  IN  <<e + 1, UnitEnd(tx, d, UnitOptions[k])>>

\* r"([0-9.,]+\s?(?:kg|g|gr))\s+agirlik" tried at index i.
MatchValueFirst(tx, i) ==
    IF At(tx, i) \notin NumChars THEN << >>
    ELSE LET d == RunEnd(tx, i, NumChars)
             Follows(u) == LET r == RunEnd(tx, u + 1, WsChars)
                           IN  r >= u + 1 /\ At(tx, r + 1) \in Keyword
             ok == {k \in 1..Len(UnitOptions) :
                        /\ UnitEnd(tx, d, UnitOptions[k]) # 0
                        /\ Follows(UnitEnd(tx, d, UnitOptions[k]))}
         IN  IF ok = {} THEN << >>
             ELSE LET k == CHOOSE x \in ok : \A y \in ok : x <= y
                  IN  <<i, UnitEnd(tx, d, UnitOptions[k])>>

\* re.search: the match at the leftmost index that has one; then m.group(1).
WeightSearch(tx) ==
    LET at1 == {i \in 1..Len(tx) : MatchKeywordFirst(tx, i) # << >>}
        at2 == {i \in 1..Len(tx) : MatchValueFirst(tx, i) # << >>}
        Least(S) == CHOOSE x \in S : \A y \in S : x <= y
        g  == IF at1 # {} THEN MatchKeywordFirst(tx, Least(at1))
              ELSE IF at2 # {} THEN MatchValueFirst(tx, Least(at2))
              ELSE << >>
    IN  IF g = << >> THEN << >> ELSE <<SubSeq(tx, g[1], g[2])>>

\* What each fallback rule finds on the page: has = the rule assigns the
\* field, val = the value it assigns.
Found(val)  == [has |-> TRUE, val |-> Str(val)]
NotFound    == [has |-> FALSE, val |-> EmptyStr]

Fallback(doc, f) ==
    CASE f = "image" ->
            \* og = soup.find("meta", property="og:image"); og.get("content")
            IF doc.og # << >> /\ doc.og[1] # << >> THEN Found(doc.og[1]) ELSE NotFound
      [] f = "name" ->
            IF doc.h1 # << >> THEN Found(GetText(<< >>, doc.h1[1].nodes)) ELSE NotFound
      [] f = "brand" ->
            IF doc.brandEls # << >> THEN Found(GetText(<< >>, doc.brandEls[1].nodes))
            ELSE NotFound
      [] f = "price" ->
            LET p == SelectOne(doc.priceEls, PriceSelectors) IN
            IF p # << >> THEN Found(GetText(<< >>, p[1].nodes)) ELSE NotFound
      [] f = "description" ->
            LET desc == SelectOne(doc.descEls, DescSelectors) IN
            IF desc # << >> THEN Found(GetText(<<"\n">>, desc[1].nodes)) ELSE NotFound
      [] f = "category" ->
            \* crumbs = [c.get_text(strip=True) for c in soup.select(...)]
            LET links  == SelectAll(doc.crumbs, CrumbSelectors)
                crumbs == [i \in 1..Len(links) |-> GetText(<< >>, links[i].nodes)]
            IN  IF crumbs # << >> THEN Found(Join(<<" ", "/", " ">>, crumbs)) ELSE NotFound
      [] f = "weight" ->
            LET m == WeightSearch(PageText(doc)) IN
            IF m # << >> THEN Found(m[1]) ELSE NotFound

\* A phase 2 without the "if not data[f]" guards.
UseFallbackAlways(old, fb) == fb.has

\* if not data[f]: the fallback rule of f
UseFallback(old, fb) == ~Truthy(old) /\ fb.has

Phase2(doc, data) ==
    [f \in Fields |->
        IF UseFallback(data[f], Fallback(doc, f)) THEN Fallback(doc, f).val ELSE data[f]]

\* for k, v in data.items(): if isinstance(v, str): collapse and strip
PostProcess(data) == [f \in Fields |-> NormalizeValue(data[f])]

\* parse_product(html): exc is the exception that leaves it, or NoExc and
\* data is the returned dict.
parse_product(doc) ==
    LET p1 == Phase1(doc) IN
    IF p1.exc # NoExc THEN [exc |-> p1.exc, data |-> EmptyData]
    ELSE [exc |-> NoExc, data |-> PostProcess(Phase2(doc, p1.data))]

-----------------------------------------------------------------------------
(* The translator adapter and the handler's except clauses *)

\* translator.translate(text) when the provider answers.
Translate(text) == Str(<<"fa:">> \o Format(text))

\* A t whose except clause returns "" instead of the text.
t_EmptyOnFailure(text, outcome) ==
    IF ~Truthy(text) THEN [exc |-> NoExc, val |-> EmptyStr]
    ELSE IF outcome = "ok" THEN [exc |-> NoExc, val |-> Translate(text)]
    ELSE [exc |-> NoExc, val |-> EmptyStr]

\* t(text): outcome is what the provider does if it is called.  exc is the
\* exception that leaves t (none: "except Exception" returns the text).
t(text, outcome) ==
    IF ~Truthy(text) THEN [exc |-> NoExc, val |-> EmptyStr]
    ELSE IF outcome = "ok" THEN [exc |-> NoExc, val |-> Translate(text)]
    ELSE [exc |-> NoExc, val |-> text]

\* t calls the provider only for a truthy text.
CallsProvider(text) == Truthy(text)

\* A dict literal that also sends the price through t.
TranslatedFieldsAndPrice == <<"name", "price", "description", "brand", "category">>

\* The keys of result whose value is t(product[key]), in the order the dict
\* literal evaluates them.
TranslatedFields == <<"name", "description", "brand", "category">>

\* result = {...}: translated keys from the values t returned, the others
\* copied from product.
BuildResult(prod, tr) ==
    [f \in Fields |-> IF f \in DOMAIN tr THEN tr[f] ELSE prod[f]]

\* An HTTPStatusError clause that does not report the status code.
ExceptClausesNoStatus(kind, status) ==
    IF kind = "HTTPStatusError"
    THEN [caught |-> TRUE, error |-> Str(<<"HTTP error">>)]
    ELSE [caught |-> TRUE, error |-> Str(<<"Unexpected error: ", kind>>)]

\* A try statement without the "except Exception" clause.
ExceptClausesHttpOnly(kind, status) ==
    IF kind = "HTTPStatusError"
    THEN [caught |-> TRUE, error |-> Str(<<"HTTP error: ">> \o Digits(status))]
    ELSE [caught |-> FALSE, error |-> None]

\* The except clauses of extract: HTTPStatusError reports the status code,
\* every other Exception its description; caught = the handler goes on to
\* render.
ExceptClauses(kind, status) ==
    IF kind = "HTTPStatusError"
    THEN [caught |-> TRUE, error |-> Str(<<"HTTP error: ">> \o Digits(status))]
    ELSE [caught |-> TRUE, error |-> Str(<<"Unexpected error: ", kind>>)]

-----------------------------------------------------------------------------
(* The documents and responses the handler is run on *)

MaxBlocks     == 2    \* JSON-LD script blocks of a multi-block document
MaxCandidates == 2    \* objects of a JSON-LD array
MaxDescEls    == 2    \* description containers of a page

SeqsUpTo(S, n) == UNION {[1..k -> S] : k \in 0..n}

Keys == {"@type", "name", "image", "brand", "offers", "description", "category",
         "categoryName", "additionalProperty", "additionalProperties"}

\* A JSON object with the given type and nothing else (a missing key and a
\* null both read as None).
Bare(ty) == [k \in Keys |-> IF k = "@type" THEN ty ELSE None]

Messy(a, b) == <<" ", a, " ", "\n", b, " ">>

Offer(price, currency) ==
    Dict([k \in {"price", "priceCurrency"} |-> IF k = "price" THEN price ELSE currency])

Prop(name, value, unit) ==
    Dict([k \in {"name", "value", "unitCode"} |->
            CASE k = "name" -> name [] k = "value" -> value [] k = "unitCode" -> unit])

\* A Product object with every field present as plain text.
Full(ty) ==
    [Bare(ty) EXCEPT
        !["name"]        = Str(<<"n">>),
        !["image"]       = Str(<<"i">>),
        !["brand"]       = Dict([name |-> Str(<<"b">>)]),
        !["offers"]      = Offer(Str(<<"9">>), Str(<<"TL">>)),
        !["description"] = Str(<<"d">>),
        !["category"]    = List(<<Str(<<"c">>), Str(<<"e">>)>>),
        !["additionalProperty"] = List(<<Prop(Str(<<"Weight">>), Str(<<"3", "g">>), None)>>)]

Values(k) ==
    CASE k \in {"name", "description"} ->
            {None, Str(<< >>), Str(<<"x">>), Str(Messy("x", "y")), Str(<<" ">>),
             Num(7), Num(0), List(<<Str(<<"x">>)>>), Dict([v |-> Str(<<"x">>)])}
      [] k = "image" ->
            {None, Str(<<"x">>), Str(Messy("x", "y")), List(<< >>),
             List(<<Str(<<"x">>), Str(<<"y">>)>>), List(<<Str(<< >>), Str(<<"y">>)>>),
             List(<<Num(7)>>), List(<<Dict([url |-> Str(<<"x">>)])>>), Num(7),
             Dict([url |-> Str(<<"x">>)])}
      [] k = "brand" ->
            {None, Str(<<"x">>), Str(<< >>), Str(Messy("x", "y")),
             Dict([name |-> Str(<<"x">>)]), Dict([name |-> None]),
             Dict([name |-> Num(7)]), Dict(<< >>), List(<<Str(<<"x">>)>>), Num(7)}
      [] k = "offers" ->
            {None, Offer(Str(<<"9">>), Str(<<"TL">>)), Offer(Str(<<"9">>), None),
             Offer(Num(7), Str(<<"TL">>)), Offer(Num(0), Str(<<"TL">>)),
             Offer(Str(<<" ">>), None), Offer(None, Str(<<"TL">>)),
             Offer(Str(Messy("9", "9")), Num(7)),
             Dict([highPrice |-> Str(<<"8">>), lowPrice |-> Str(<<"1">>)]),
             Dict([lowPrice |-> Str(<<"1">>)]),
             List(<<Offer(Str(<<"9">>), Str(<<"TL">>)), Offer(Str(<<"1">>), None)>>),
             List(<<Str(<<"9">>)>>), List(<< >>), Str(<<"9">>), Num(7)}
      [] k \in {"category", "categoryName"} ->
            {None, Str(<<"x">>), Str(Messy("x", "y")),
             List(<<Str(<<"x">>), Str(<<"y", " ">>)>>), List(<< >>),
             List(<<Num(7)>>), List(<<Str(<<"x">>), Dict(<< >>)>>),
             List(<<Str(<<"x">>), List(<<Str(<<"y">>)>>)>>), Num(7),
             Dict([name |-> Str(<<"x">>)])}
      [] k \in {"additionalProperty", "additionalProperties"} ->
            {None, List(<< >>),
             List(<<Prop(Str(<<"Weight">>), Str(<<"3", " ", "k", "g">>), None)>>),
             List(<<Prop(Str(<<"net", "WEIGHT">>), None, Str(<<"KGM">>))>>),
             List(<<Prop(Str(<<"Agirlik">>), Str(<<"3", "g">>), None)>>),
             List(<<Prop(Str(<<"AGIRLIK">>), Str(<<"3", "g">>), None)>>),
             List(<<Prop(Str(<<"color">>), Str(<<"red">>), None)>>),
             List(<<Prop(Str(<<"weight">>), Num(7), None)>>),
             List(<<Prop(Str(<<"weight">>), Str(<<"3", "g">>), None),
                    Prop(Str(<<"weight">>), None, None)>>),
             List(<<Prop(None, Str(<<"3", "g">>), None)>>),
             List(<<Prop(Num(7), Str(<<"3", "g">>), None)>>),
             List(<<Str(<<"weight">>)>>), List(<<Num(7)>>), List(<<None>>),
             List(<<Prop(Str(<<"weight">>), Str(<<"3", "g">>), None), Str(<<"x">>)>>),
             List(<<List(<<Str(<<"weight">>)>>)>>),
             Str(<<"weight">>), Prop(Str(<<"weight">>), Str(<<"3", "g">>), None)}

TypeValues ==
    {Str(<<"Product">>), Str(<<"product">>), Str(<<"PRODUCT">>), Str(<<"pRoDuCt">>),
     Str(<<"Offer">>), None, List(<<Str(<<"Product">>)>>)}

\* Objects that differ from a plain Product object in one key.
FieldObjects ==
    UNION {{Dict([base EXCEPT ![k] = x]) :
                base \in {Bare(Str(<<"Product">>)), Full(Str(<<"product">>))},
                x \in Values(k)} : k \in Keys \ {"@type"}}

TypeObjects == {Dict(Full(ty)) : ty \in TypeValues}

\* Two Product objects that set different fields, and an object of another type.
ProductA ==
    Dict([Bare(Str(<<"Product">>)) EXCEPT
            !["name"] = Str(<<"a">>), !["image"] = Str(<<"ai">>),
            !["offers"] = Offer(Str(<<"1">>), None),
            !["category"] = Str(<<"ac">>)])

ProductB ==
    Dict([Bare(Str(<<"product">>)) EXCEPT
            !["name"] = Str(<<"b">>), !["brand"] = Str(<<"bb">>),
            !["description"] = Str(<<"bd">>),
            !["category"] = List(<< >>),
            !["additionalProperty"] =
                List(<<Prop(Str(<<"weight">>), Str(<<"3", "g">>), None)>>)])

OtherObject == Dict([Bare(Str(<<"Offer">>)) EXCEPT !["name"] = Str(<<"o">>)])

SmallObjects == {ProductA, ProductB, OtherObject}

Arrays == {List(a) : a \in SeqsUpTo(SmallObjects, MaxCandidates)}

SimpleBlocks ==
    {Block("bad", None), Block("empty", None), Block("json", Str(<<"x">>)),
     Block("json", List(<<OtherObject, ProductA, ProductB>>))}
      \cup {Block("json", o) : o \in SmallObjects}

\* Pages.  An element's text is one atom, so that its source can be told.
NoPage ==
    [blocks |-> << >>, og |-> << >>, h1 |-> << >>, brandEls |-> << >>,
     priceEls |-> << >>, descEls |-> << >>, crumbs |-> << >>, text |-> << >>]

OgValues    == {<< >>, << <<"og">> >>, << << >>, <<"og">> >>, << Messy("og", "og") >>}
H1Values    == {<< >>, <<El(1, << <<"h">> >>)>>, <<El(1, << >>)>>,
                <<El(1, << <<" ", "h">>, <<" ">>, <<"h", " ", " ", "h", "\n">> >>),
                  El(1, << <<"h2">> >>)>>}
BrandValues == {<< >>, <<El(1, << <<" ", "pb", " ">> >>)>>}
PriceValues == {<< >>, <<El(2, << <<"p2">> >>), El(1, << <<"p1">> >>)>>,
                <<El(3, << <<"p3", " ">>, <<"TL">> >>)>>}
CrumbValues == {<< >>, <<El(1, << <<"k1">> >>), El(3, << <<" ", "k3">> >>)>>,
                <<El(2, << >>), El(0, << <<"k0">> >>), El(2, << <<"k2">> >>)>>}
TextValues  == {<< >>, << <<"Agirlik", ":", " ", "3", "5", " ", "g", "r">> >>,
                << <<"3", ",", "5", " ", "K", "G">>, <<"agirlik">> >>,
                << <<"agirlik">>, <<"3", "g">>, <<"AGIRLIK", " ", "5", "k", "g">> >>,
                << <<"3", "g", "r", "agirlik">>, <<"5", "g", "r">>, <<"Agirlik">> >>,
                << <<"weight", ":", " ", "3", "g">> >>}

\* Description containers: selector 0 is an element that matches no selector
\* of the group; the text names the selector and the position on the page.
DescNames == <<"d1", "d2", "d3", "d4", "d5">>
PosNames  == <<"first", "second", "third", "fourth">>
DescEl(s, i) ==
    El(s, << <<" ", IF s \in DOMAIN DescNames THEN DescNames[s] ELSE "dx">>,
             <<PosNames[i], " ", " ", "more">> >>)
DescValues ==
    {[i \in 1..Len(q) |-> DescEl(q[i], i)] :
        q \in SeqsUpTo(0..NumDescSelectors, MaxDescEls)}

FullPage ==
    [NoPage EXCEPT !.og = << <<"og">> >>, !.h1 = <<El(1, << <<"h">> >>)>>,
                   !.brandEls = <<El(1, << <<"pb">> >>)>>,
                   !.priceEls = <<El(1, << <<"p1">> >>)>>,
                   !.descEls = <<DescEl(2, 1)>>,
                   !.crumbs = <<El(1, << <<"k1">> >>), El(1, << <<"k2">> >>)>>,
                   !.text = << <<"Agirlik", ":", " ", "5", " ", "k", "g">> >>]

\* Pages that differ from the given page in one rule.
PageVariants(base) ==
    UNION {
        {[base EXCEPT !.og = x] : x \in OgValues},
        {[base EXCEPT !.h1 = x] : x \in H1Values},
        {[base EXCEPT !.brandEls = x] : x \in BrandValues},
        {[base EXCEPT !.priceEls = x] : x \in PriceValues},
        {[base EXCEPT !.crumbs = x] : x \in CrumbValues},
        {[base EXCEPT !.text = x] : x \in TextValues} }

Pages == PageVariants(NoPage) \cup PageVariants(FullPage)

DescPages == {[NoPage EXCEPT !.descEls = x] : x \in DescValues}

Docs ==
    UNION {
        {[pg EXCEPT !.blocks = <<Block("json", o)>>] :
            o \in FieldObjects, pg \in {NoPage, FullPage}},
        {[pg EXCEPT !.blocks = <<Block("json", o)>>] : o \in TypeObjects, pg \in Pages},
        {[pg EXCEPT !.blocks = <<Block("json", a)>>] : a \in Arrays, pg \in {NoPage, FullPage}},
        {[pg EXCEPT !.blocks = b] :
            b \in SeqsUpTo(SimpleBlocks, MaxBlocks), pg \in {NoPage, FullPage}},
        {[pg EXCEPT !.blocks = b] :
            b \in {<< >>, <<Block("json", ProductA)>>, <<Block("json", ProductB)>>},
            pg \in DescPages} }

\* parse_product on each document, computed once.
ParsedDocs == [d \in Docs |-> parse_product(d)]

\* The status codes for which resp.raise_for_status() raises.
Statuses == {400, 404, 500, 503}

-----------------------------------------------------------------------------
(* The handler of POST /extract *)

VARIABLES
    pc,        \* where the handler is: fetch, parse, translate, render, done, crashed
    resp,      \* what the fetch met: [kind, status]
    html,      \* << >>, or <<doc>> once fetch returned
    product,   \* << >>, or <<data>> once parse_product returned
    tr,        \* the values t returned so far, by key
    result,    \* None or the result dict
    error,     \* None or the error message
    parsed,    \* parse_product was called
    tcalls,    \* the keys whose value was passed to t, in call order
    provider,  \* the calls made to translator.translate: [text, outcome]
    rendered   \* << >>, or <<context>> once the template was rendered

vars == <<pc, resp, html, product, tr, result, error, parsed, tcalls, provider, rendered>>

Init ==
    /\ pc = "fetch"
    /\ resp = [kind |-> "none", status |-> 0]
    /\ html = << >>
    /\ product = << >>
    /\ tr = << >>
    /\ result = None
    /\ error = None
    /\ parsed = FALSE
    /\ tcalls = << >>
    /\ provider = << >>
    /\ rendered = << >>

\* An exception reaches the try statement of extract.
Raise(kind, status) ==
    LET h == ExceptClauses(kind, status) IN
    IF h.caught THEN pc' = "render" /\ error' = h.error
    ELSE pc' = "crashed" /\ error' = error

\* html = fetch(url): the server answers with a document.
FetchOk ==
    /\ pc = "fetch"
    /\ \E d \in Docs : html' = <<d>>
    /\ resp' = [kind |-> "ok", status |-> 200]
    /\ pc' = "parse"
    /\ UNCHANGED <<product, tr, result, error, parsed, tcalls, provider, rendered>>

\* resp.raise_for_status() raises HTTPStatusError.
FetchStatusError ==
    /\ pc = "fetch"
    /\ \E s \in Statuses :
          /\ resp' = [kind |-> "status", status |-> s]
          /\ Raise("HTTPStatusError", s)
    /\ UNCHANGED <<html, product, tr, result, parsed, tcalls, provider, rendered>>

\* client.get raises a transport error (timeout, DNS, connection reset).
FetchTransportError ==
    /\ pc = "fetch"
    /\ resp' = [kind |-> "transport", status |-> 0]
    /\ Raise("ConnectError", 0)
    /\ UNCHANGED <<html, product, tr, result, parsed, tcalls, provider, rendered>>

\* product = parse_product(html)
Parse ==
    /\ pc = "parse"
    /\ parsed' = TRUE
    /\ LET r == ParsedDocs[html[1]] IN
       IF r.exc = NoExc
       THEN product' = <<r.data>> /\ pc' = "translate" /\ error' = error
       ELSE product' = product /\ Raise(r.exc, 0)
    /\ UNCHANGED <<resp, html, tr, result, tcalls, provider, rendered>>

\* The next t(product[key]) of the dict literal.
TranslateField ==
    /\ pc = "translate"
    /\ Len(tcalls) < Len(TranslatedFields)
    /\ LET f    == TranslatedFields[Len(tcalls) + 1]
           text == product[1][f]
       IN  \E outcome \in {"ok", "throws"} :
             /\ ~CallsProvider(text) => outcome = "ok"
             /\ tcalls' = Append(tcalls, f)
             /\ provider' = IF CallsProvider(text)
                            THEN Append(provider, [text |-> text, outcome |-> outcome])
                            ELSE provider
             /\ LET r == t(text, outcome) IN
                IF r.exc = NoExc
                THEN tr' = (f :> r.val) @@ tr /\ pc' = pc /\ error' = error
                ELSE tr' = tr /\ Raise(r.exc, 0)
    /\ UNCHANGED <<resp, html, product, result, parsed, rendered>>

\* result = {...} once every value of the dict literal is there.
AssignResult ==
    /\ pc = "translate"
    /\ Len(tcalls) = Len(TranslatedFields)
    /\ result' = Dict(BuildResult(product[1], tr))
    /\ pc' = "render"
    /\ UNCHANGED <<resp, html, product, tr, error, parsed, tcalls, provider, rendered>>

\* return templates.TemplateResponse("index.html", {..., result, error})
Render ==
    /\ pc = "render"
    /\ rendered' = <<[result |-> result, error |-> error]>>
    /\ pc' = "done"
    /\ UNCHANGED <<resp, html, product, tr, result, error, parsed, tcalls, provider>>

Next ==
    \/ FetchOk
    \/ FetchStatusError
    \/ FetchTransportError
    \/ Parse
    \/ TranslateField
    \/ AssignResult
    \/ Render

Spec == Init /\ [][Next]_vars

-----------------------------------------------------------------------------
(* Properties *)

Doc         == html[1]
Returned    == product # << >>
ParseRaised == parsed /\ product = << >> /\ pc # "parse"

IsNormalized(s) ==
    \/ s = << >>
    \/ /\ ~IsWs(s[1])
       /\ ~IsWs(s[Len(s)])
       /\ \A i \in 1..Len(s) : IsWs(s[i]) => s[i] = " " /\ ~IsWs(s[i + 1])

Contains(msg, sub) ==
    \E i \in 1..(Len(msg) - Len(sub) + 1) : SubSeq(msg, i, i + Len(sub) - 1) = sub

\* The values of the object Full(ty), after whitespace normalization.
FullRecord ==
    [f \in Fields |->
        CASE f = "image"       -> Str(<<"i">>)
          [] f = "name"        -> Str(<<"n">>)
          [] f = "price"       -> Str(<<"9", " ", "TL">>)
          [] f = "description" -> Str(<<"d">>)
          [] f = "brand"       -> Str(<<"b">>)
          [] f = "category"    -> Str(<<"c", " ", "/", " ", "e">>)
          [] f = "weight"      -> Str(<<"3", "g">>)]

\* C1: when phase 1 yields a non-empty value for a field and the fallback rule
\* of that field finds a value on the page, the returned field is the
\* whitespace-normalized phase-1 value; and a document whose only block is a
\* Product object with every field present returns exactly its values.
C1_FallbackPriority ==
    Returned =>
        /\ \A f \in Fields :
              LET p1 == Phase1(Doc).data[f]
                  fb == Fallback(Doc, f)
              IN  (Truthy(p1) /\ fb.has /\ Truthy(fb.val))
                     => product[1][f] = NormalizeValue(p1)
        /\ \A ty \in {Str(<<"Product">>), Str(<<"product">>)} :
              Doc.blocks = <<Block("json", Dict(Full(ty)))>> => product[1] = FullRecord

\* A Product object with every field and a page on which every fallback rule
\* finds another value.
C1_Witness ==
    /\ Returned
    /\ \A f \in Fields :
          /\ Truthy(Phase1(Doc).data[f])
          /\ Fallback(Doc, f).has
          /\ Truthy(NormalizeValue(Fallback(Doc, f).val))
          /\ NormalizeValue(Fallback(Doc, f).val) # product[1][f]

\* C2: parse_product never raises: once it was called on a fetched document,
\* it has returned a record.
C2_NeverRaises == ~ParseRaised

\* C3: every attribute of the returned record is a string, empty or
\* whitespace-normalized and trimmed.
C3_RecordInvariant ==
    Returned => \A f \in Fields : IsStr(product[1][f]) /\ IsNormalized(product[1][f].v)

\* C4: when fetch and parse succeeded and the provider threw on every call,
\* the handler renders a result without an error, whose name, description,
\* brand, category, price and weight are the extracted values.
C4_TranslatorFailureDegrades ==
    (pc = "done" /\ Returned /\ \A i \in 1..Len(provider) : provider[i].outcome = "throws")
      => /\ rendered[1].error = None
         /\ rendered[1].result # None
         /\ \A f \in {"name", "description", "brand", "category", "price", "weight"} :
               rendered[1].result.v[f] = product[1][f]

C4_Witness ==
    /\ pc = "done"
    /\ Returned
    /\ Len(provider) = Len(TranslatedFields)
    /\ \A i \in 1..Len(provider) : provider[i].outcome = "throws"
    /\ rendered[1].result # None
    /\ Truthy(product[1]["price"]) /\ Truthy(product[1]["weight"])

\* C5: when the fetch fails with HTTP status s, the rendered response has no
\* result and an error message that contains the digits of s, and neither
\* parse_product nor the translator was called.
C5_HttpStatusError ==
    resp.kind = "status" =>
        /\ ~parsed /\ tcalls = << >> /\ provider = << >>
        /\ result = None
        /\ error # None /\ Contains(error.v, Digits(resp.status))
        /\ pc = "done" => rendered[1] = [result |-> None, error |-> error]

C5_Witness ==
    /\ pc = "done"
    /\ resp = [kind |-> "status", status |-> 404]
    /\ rendered[1].result = None
    /\ rendered[1].error = Str(<<"HTTP error: ", "4", "0", "4">>)

\* C6: whatever fetch, parse_product and the translator calls do, the handler
\* goes on until it has rendered, and hands the template exactly one of a
\* result and an error: a result when fetch and parse returned, an error when
\* one of them raised; no exception leaves the handler.
C6_AlwaysRenders ==
    /\ pc # "crashed"
    /\ pc # "done" => ENABLED Next
    /\ pc = "done" =>
          /\ rendered # << >>
          /\ (rendered[1].result = None) # (rendered[1].error = None)
          /\ (resp.kind = "ok" /\ Returned)
                => rendered[1].result # None /\ rendered[1].error = None
          /\ (resp.kind \in {"status", "transport"} \/ ParseRaised)
                => rendered[1].error # None /\ rendered[1].result = None

\* parse_product raised and the handler rendered the error.
C6_Witness ==
    /\ pc = "done"
    /\ ParseRaised
    /\ rendered[1].result = None
    /\ rendered[1].error = Str(<<"Unexpected error: ", "AttributeError">>)

Passed == {tcalls[i] : i \in 1..Len(tcalls)}

\* C7 as stated: price and weight are rendered as extracted and never passed
\* to the translator, and image, name, description, brand and category are
\* each passed through it.
C7_FiveFieldsTranslated ==
    (pc = "done" /\ result # None) =>
        /\ Passed = {"image", "name", "description", "brand", "category"}
        /\ \A f \in {"price", "weight"} : rendered[1].result.v[f] = product[1][f]

\* C7 amended: price, weight and image are rendered as extracted and never
\* passed to the translator; name, description, brand and category are each
\* passed through it, and rendered as what it returned.
C7_FourFieldsTranslated ==
    /\ Passed \subseteq {"name", "description", "brand", "category"}
    /\ \A i \in 1..Len(provider) :
          \E f \in {"name", "description", "brand", "category"} :
              provider[i].text = product[1][f]
    /\ (pc = "done" /\ result # None) =>
          /\ Passed = {"name", "description", "brand", "category"}
          /\ \A f \in {"price", "weight", "image"} :
                rendered[1].result.v[f] = product[1][f]
          /\ \A f \in {"name", "description", "brand", "category"} :
                rendered[1].result.v[f]
                    \in {EmptyStr, product[1][f], Translate(product[1][f])}

\* Every field extracted, every translation answered.
C7_Witness ==
    /\ pc = "done"
    /\ result # None
    /\ \A f \in Fields : Truthy(product[1][f])
    /\ \A f \in {"name", "description", "brand", "category"} :
          rendered[1].result.v[f] = Translate(product[1][f])
    /\ \A f \in {"price", "weight", "image"} : rendered[1].result.v[f] = product[1][f]

\* The JSON-LD objects of the document, in document order.
RECURSIVE AllCandidates(_)
AllCandidates(blocks) ==
    IF blocks = << >> THEN << >>
    ELSE (IF Head(blocks).k = "json" THEN Candidates(Head(blocks).js) ELSE << >>)
            \o AllCandidates(Tail(blocks))

ProductsOf(doc) ==
    LET c == AllCandidates(doc.blocks) IN {i \in 1..Len(c) : IsProduct(c[i])}

\* The document with its first Product object as the only JSON-LD content.
OnlyFirstProduct(doc) ==
    LET c == AllCandidates(doc.blocks)
        P == ProductsOf(doc)
    IN  IF P = {} THEN [doc EXCEPT !.blocks = << >>]
        ELSE [doc EXCEPT !.blocks =
                 <<Block("json", c[CHOOSE i \in P : \A j \in P : i <= j])>>]

\* C8: every field is taken as if the first Product object in document order
\* were the only one: no later Product object overwrites or adds a field.
C8_FirstProductOnly ==
    Returned => product[1] = parse_product(OnlyFirstProduct(Doc)).data

\* The first element, in document order, among those that match the
\* earliest-listed selector that has a match.
FirstOfEarliestSelector(els, sels) ==
    LET hit  == {s \in sels : \E i \in 1..Len(els) : els[i].sel = s}
        best == CHOOSE s \in hit : \A x \in hit : s <= x
        at   == {i \in 1..Len(els) : els[i].sel = best}
    IN  els[CHOOSE i \in at : \A j \in at : i <= j]

\* The first element, in document order, that matches any of the selectors.
FirstInDocument(els, sels) ==
    LET at == {i \in 1..Len(els) : els[i].sel \in sels}
    IN  els[CHOOSE i \in at : \A j \in at : i <= j]

DescMatches(doc) == {i \in 1..Len(doc.descEls) : doc.descEls[i].sel \in DescSelectors}

DescFallbackCase ==
    /\ Returned
    /\ ~Truthy(Phase1(Doc).data["description"])
    /\ DescMatches(Doc) # {}

\* C9 as stated: the description fallback is the text of the first element that
\* matches the earliest-listed selector with a match, wherever it is.
C9_ListedOrder ==
    DescFallbackCase =>
        product[1]["description"] =
            NormalizeValue(Str(GetText(<<"\n">>,
                FirstOfEarliestSelector(Doc.descEls, DescSelectors).nodes)))

\* C9 amended: the description fallback is the text of the first element in
\* document order that matches any of the listed selectors.
C9_DocumentOrder ==
    DescFallbackCase =>
        product[1]["description"] =
            NormalizeValue(Str(GetText(<<"\n">>,
                FirstInDocument(Doc.descEls, DescSelectors).nodes)))

\* Two containers, the one of the later-listed selector first on the page.
C9_Witness ==
    /\ DescFallbackCase
    /\ \E i, j \in DescMatches(Doc) :
          /\ i < j /\ Doc.descEls[i].sel > Doc.descEls[j].sel
          /\ \A k \in DescMatches(Doc) : i <= k
          /\ product[1]["description"] =
                 NormalizeValue(Str(GetText(<<"\n">>, Doc.descEls[i].nodes)))
          /\ product[1]["description"] #
                 NormalizeValue(Str(GetText(<<"\n">>, Doc.descEls[j].nodes)))

\* The value with every type string that is a letter-casing of "product"
\* written "Product".
RECURSIVE Canonical(_)
Canonical(x) ==
    CASE x.t = "list" -> List([i \in 1..Len(x.v) |-> Canonical(x.v[i])])
      [] x.t = "dict" ->
            Dict([k \in DOMAIN x.v |->
                    IF k = "@type" /\ IsStr(x.v[k]) /\ Lower(x.v[k].v) = <<"product">>
                    THEN Str(<<"Product">>) ELSE x.v[k]])
      [] OTHER -> x

CanonicalDoc(doc) ==
    [doc EXCEPT !.blocks =
        [i \in 1..Len(doc.blocks) |-> Block(doc.blocks[i].k, Canonical(doc.blocks[i].js))]]

\* C10: an object whose type is any letter-casing of "product" is extracted
\* exactly as if its type were "Product".
C10_CaseInsensitiveType ==
    Returned => parse_product(CanonicalDoc(Doc)) = [exc |-> NoExc, data |-> product[1]]

=============================================================================
